---- MODULE Spec2Model ----
(***************************************************************************)
(* DPorch guest interop bridge.                                            *)
(*                                                                         *)
(* Modelled from the sources: the pickle codec (pickle_serialize.py,       *)
(* pickle_deserialize.py), the example stage scripts                       *)
(* (iteration_rate_limiter.py, end_close_sock.py) and the PythonGIL test   *)
(* module (test_functions.py).  The host side of the bridge (Call Gate,    *)
(* resolver/invoker, stage adapter) is not among the sources and is        *)
(* modelled from its specification.                                        *)
(***************************************************************************)
EXTENDS Integers, Sequences, FiniteSets, TLC

VARIABLES
    \* ---- Object Codec ----
    source_msg_map,   \* dict handed to deserialize: sequence of (source, data) in insertion order
    sent,             \* channel -> the object that serialize() was applied to
    outcome,          \* what the last deserialize() call did
    \* ---- Call Gate / threads ----
    gate,             \* holder of the Call Gate token, or NoThread
    pc,               \* per thread: position inside its bridge call
    op,               \* per thread: the call it is performing
    local,            \* per thread: value read from did_show_msg at line 7
    ret,              \* per thread: host-observable result of its last call
    completed,        \* result kinds of the last two completed calls, oldest first
    calls,            \* number of bridge calls started so far
    \* ---- Stage Adapter ----
    script,           \* the script this stage instantiates
    stage,            \* "Unloaded" | "Loaded" | "Ended"
    loads,            \* load operations that executed the script
    request,          \* the last bridge operation the host issued
    ref,              \* callable reference held by the host (from the last resolve)
    result,           \* host-observable result of the last bridge operation
    steps,            \* bridge operations issued so far
    \* ---- Guest Execution Context ----
    guest             \* module-level guest state and the observable effects of guest code

codecVars == <<source_msg_map, sent, outcome>>
gateVars  == <<gate, pc, op, local, ret, completed, calls>>
stageVars == <<script, stage, loads, request, ref, result, steps>>
vars == <<source_msg_map, sent, outcome, gate, pc, op, local, ret, completed,
          calls, script, stage, loads, request, ref, result, steps, guest>>

(***************************************************************************)
(* Bounds                                                                  *)
(***************************************************************************)
MaxItems == 2      \* longest list / tuple among the guest values
MaxInt   == 1      \* largest integer among the guest values
MaxCalls == 4      \* bridge calls started by the threads
MaxSteps == 5      \* bridge operations issued on one stage / module
MaxArgs  == 4      \* most positional arguments the host passes to invoke

Channels == {"a", "b"}

(***************************************************************************)
(* Guest values.  One record shape for every kind so that values of        *)
(* different kinds can be compared.                                        *)
(***************************************************************************)
Val(k, n, s, items) == [k |-> k, n |-> n, s |-> s, items |-> items]

NoneVal      == Val("NoneType", 0, "", <<>>)
BoolVal(b)   == Val("bool", IF b THEN 1 ELSE 0, "", <<>>)
IntVal(n)    == Val("int", n, "", <<>>)
StrVal(s)    == Val("str", 0, s, <<>>)
ListVal(xs)  == Val("list", 0, "", xs)
TupleVal(xs) == Val("tuple", 0, "", xs)
MarkObj      == Val("<mark>", 0, "", <<>>)

Atoms == {NoneVal, BoolVal(TRUE), StrVal("x")} \cup {IntVal(n) : n \in 0..MaxInt}

\* what the modelled lists and tuples are filled with
Elems == {NoneVal, StrVal("x"), IntVal(MaxInt)}

SeqsUpTo(S, n) == UNION {[1..m -> S] : m \in 0..n}

Values ==
    Atoms
      \cup {ListVal(xs)  : xs \in SeqsUpTo(Elems, MaxItems)}
      \cup {TupleVal(xs) : xs \in SeqsUpTo(Elems, MaxItems)}
      \cup {BoolVal(FALSE), StrVal(""), ListVal(<<BoolVal(FALSE), BoolVal(TRUE), NoneVal>>),
            ListVal(<<TupleVal(<<IntVal(0), StrVal("x")>>), ListVal(<<>>)>>),
            TupleVal(<<ListVal(<<NoneVal>>)>>),
            TupleVal(<<IntVal(0), IntVal(1), IntVal(0), IntVal(1)>>)}

\* Python's == on the modelled kinds: bool is a subclass of int and compares
\* numerically with it; sequences compare element-wise and never across kinds.
RECURSIVE PyEq(_, _)
PyEq(a, b) ==
    LET num == {"bool", "int"} IN
    IF a.k \in num /\ b.k \in num THEN a.n = b.n
    ELSE IF a.k # b.k THEN FALSE
    ELSE IF a.k \in {"list", "tuple"}
         THEN /\ Len(a.items) = Len(b.items)
              /\ \A i \in 1..Len(a.items) : PyEq(a.items[i], b.items[i])
    ELSE a = b

(***************************************************************************)
(* pickle.dumps: the opcode stream of the default protocol.                *)
(***************************************************************************)
Tok(o, n, s) == [op |-> o, n |-> n, s |-> s]
Opc(o) == Tok(o, 0, "")

RECURSIVE Concat(_)
Concat(ss) == IF ss = <<>> THEN <<>> ELSE Head(ss) \o Concat(Tail(ss))

\* A plausible encoder slip: tuples written with the list opcodes.
SaveTupleAsList(each, len) ==
    <<Opc("EMPTY_LIST"), Opc("MEMOIZE")>> \o
    (IF len = 0 THEN <<>>
     ELSE IF len = 1 THEN each \o <<Opc("APPEND")>>
     ELSE <<Opc("MARK")>> \o each \o <<Opc("APPENDS")>>)

\* save_tuple: `each` is the concatenated encoding of the len items
SaveTuple(each, len) ==
    IF len = 0 THEN <<Opc("EMPTY_TUPLE")>>
    ELSE IF len <= 3
         THEN each \o <<Opc(CASE len = 1 -> "TUPLE1"
                              [] len = 2 -> "TUPLE2"
                              [] OTHER   -> "TUPLE3"),
                        Opc("MEMOIZE")>>
    ELSE <<Opc("MARK")>> \o each \o <<Opc("TUPLE"), Opc("MEMOIZE")>>

\* save_list / _batch_appends
SaveList(each, len) ==
    <<Opc("EMPTY_LIST"), Opc("MEMOIZE")>> \o
    (IF len = 0 THEN <<>>
     ELSE IF len = 1 THEN each \o <<Opc("APPEND")>>
     ELSE <<Opc("MARK")>> \o each \o <<Opc("APPENDS")>>)

RECURSIVE Save(_)
Save(v) ==
    LET each == Concat([i \in 1..Len(v.items) |-> Save(v.items[i])]) IN
    CASE v.k = "NoneType" -> <<Opc("NONE")>>
      [] v.k = "bool"     -> <<Opc(IF v.n = 1 THEN "NEWTRUE" ELSE "NEWFALSE")>>
      [] v.k = "int"      -> <<Tok("BININT1", v.n, "")>>
      [] v.k = "str"      -> <<Tok("SHORT_BINUNICODE", 0, v.s), Opc("MEMOIZE")>>
      [] v.k = "list"     -> SaveList(each, Len(v.items))
      [] v.k = "tuple"    -> SaveTuple(each, Len(v.items))

\* PROTO carries the protocol number pickle.dumps uses by default
Dumps(obj) == <<Tok("PROTO", 4, "")>> \o Save(obj) \o <<Opc("STOP")>>

\* pickle_serialize.py
serialize(obj) == Dumps(obj)

(***************************************************************************)
(* pickle.loads: the unpickler's stack machine.                            *)
(***************************************************************************)
Ok(v)      == [status |-> "ok", val |-> v, exc |-> ""]
Raise(exc) == [status |-> "raise", val |-> NoneVal, exc |-> exc]

\* index of the topmost mark on the stack, 0 when there is none
TopMark(st) ==
    LET ms == {i \in 1..Len(st) : st[i] = MarkObj} IN
    IF ms = {} THEN 0 ELSE CHOOSE i \in ms : \A j \in ms : j <= i

Push(st, v) == Append(st, v)
DropLast(st, n) == SubSeq(st, 1, Len(st) - n)

RECURSIVE Run(_, _, _)
Run(p, i, st) ==
    IF i > Len(p) THEN Raise("EOFError")
    ELSE
    LET t == p[i]
        n == Len(st)
        m == TopMark(st)
    IN
    CASE t.op = "PROTO" ->
            IF t.n > 5 THEN Raise("ValueError") ELSE Run(p, i + 1, st)
      [] t.op = "STOP" ->
            IF n = 0 THEN Raise("UnpicklingError")
            ELSE IF st[n] = MarkObj THEN Raise("UnpicklingError")
            ELSE Ok(st[n])
      [] t.op = "NONE"     -> Run(p, i + 1, Push(st, NoneVal))
      [] t.op = "NEWTRUE"  -> Run(p, i + 1, Push(st, BoolVal(TRUE)))
      [] t.op = "NEWFALSE" -> Run(p, i + 1, Push(st, BoolVal(FALSE)))
      [] t.op = "BININT1"  -> Run(p, i + 1, Push(st, IntVal(t.n)))
      [] t.op = "SHORT_BINUNICODE" -> Run(p, i + 1, Push(st, StrVal(t.s)))
      [] t.op = "MEMOIZE" ->
            IF n = 0 THEN Raise("UnpicklingError") ELSE Run(p, i + 1, st)
      [] t.op = "EMPTY_LIST"  -> Run(p, i + 1, Push(st, ListVal(<<>>)))
      [] t.op = "EMPTY_TUPLE" -> Run(p, i + 1, Push(st, TupleVal(<<>>)))
      [] t.op = "MARK" -> Run(p, i + 1, Push(st, MarkObj))
      [] t.op = "APPEND" ->
            IF n < 2 \/ m >= n - 1 THEN Raise("UnpicklingError")
            ELSE IF st[n - 1].k # "list" THEN Raise("AttributeError")
            ELSE Run(p, i + 1,
                     Push(DropLast(st, 2), ListVal(Append(st[n - 1].items, st[n]))))
      [] t.op = "APPENDS" ->
            IF m < 2 THEN Raise("UnpicklingError")
            ELSE IF st[m - 1].k # "list" THEN Raise("AttributeError")
            ELSE Run(p, i + 1,
                     Push(SubSeq(st, 1, m - 2),
                          ListVal(st[m - 1].items \o SubSeq(st, m + 1, n))))
      [] t.op \in {"TUPLE1", "TUPLE2", "TUPLE3"} ->
            LET c == CASE t.op = "TUPLE1" -> 1 [] t.op = "TUPLE2" -> 2 [] OTHER -> 3 IN
            IF n < c \/ m > n - c THEN Raise("UnpicklingError")
            ELSE Run(p, i + 1,
                     Push(DropLast(st, c), TupleVal(SubSeq(st, n - c + 1, n))))
      [] t.op = "TUPLE" ->
            IF m = 0 THEN Raise("UnpicklingError")
            ELSE Run(p, i + 1,
                     Push(SubSeq(st, 1, m - 1), TupleVal(SubSeq(st, m + 1, n))))
      [] OTHER -> Raise("UnpicklingError")

Loads(data) == Run(data, 1, <<>>)

(***************************************************************************)
(* pickle_deserialize.py                                                   *)
(***************************************************************************)
EmptyMap == [c \in {} |-> NoneVal]
Put(m, key, v) == [c \in (DOMAIN m) \cup {key} |-> IF c = key THEN v ELSE m[c]]

Returned(res) == [status |-> "returned", result |-> res, exc |-> "", source |-> ""]
Raised(exc, src) == [status |-> "raised", result |-> EmptyMap, exc |-> exc, source |-> src]
NotCalled == [status |-> "none", result |-> EmptyMap, exc |-> "", source |-> ""]

RECURSIVE DeserializeLoop(_, _, _)

\* A plausible variant: the failing channel is skipped and the loop goes on.
LoopSkipsOnError(items, i, res, exc) == DeserializeLoop(items, i + 1, res)

\* line 14 when pickle.loads raises: the exception leaves the loop and the
\* function, and the partial result is lost
LoopOnError(items, i, res, exc) == Raised(exc, items[i].source)

\* lines 13-14
DeserializeLoop(items, i, res) ==
    IF i > Len(items) THEN Returned(res)
    ELSE LET r == Loads(items[i].data) IN
         IF r.status = "ok"
         THEN DeserializeLoop(items, i + 1, Put(res, items[i].source, r.val))
         ELSE LoopOnError(items, i, res, r.exc)

\* lines 12-15
deserialize(items) == DeserializeLoop(items, 1, EmptyMap)

\* Payloads that serialize never produces.
Malformed ==
    { <<>>,                                                   \* no bytes at all
      <<Opc("GARBAGE")>>,                                     \* not a pickle opcode
      <<Tok("PROTO", 4, ""), Opc("STOP")>>,     \* nothing on the stack
      <<Tok("PROTO", 4, ""), Opc("EMPTY_LIST"), Opc("MEMOIZE")>> } \* truncated

Keys(items) == {items[i].source : i \in 1..Len(items)}
DataOf(items, c) == items[CHOOSE i \in 1..Len(items) : items[i].source = c].data

(***************************************************************************)
(* Codec operations as the host drives them                                *)
(***************************************************************************)
CodecInit ==
    /\ source_msg_map = <<>>
    /\ sent = EmptyMap
    /\ outcome = NotCalled

\* The host encodes a guest value and files the payload under channel c.
Serialize(c, v) ==
    /\ outcome.status = "none"
    /\ c \notin Keys(source_msg_map)
    /\ source_msg_map' = Append(source_msg_map, [source |-> c, data |-> serialize(v)])
    /\ sent' = Put(sent, c, v)
    /\ UNCHANGED outcome
    /\ UNCHANGED <<gateVars, stageVars, guest>>

\* A payload that did not come from serialize arrives on channel c.
ReceiveMalformed(c, data) ==
    /\ outcome.status = "none"
    /\ c \notin Keys(source_msg_map)
    /\ source_msg_map' = Append(source_msg_map, [source |-> c, data |-> data])
    /\ UNCHANGED <<sent, outcome>>
    /\ UNCHANGED <<gateVars, stageVars, guest>>

Deserialize ==
    /\ outcome.status = "none"
    /\ outcome' = deserialize(source_msg_map)
    /\ UNCHANGED <<source_msg_map, sent>>
    /\ UNCHANGED <<gateVars, stageVars, guest>>

(***************************************************************************)
(* Guest modules: what each script binds at module level                   *)
(***************************************************************************)
TestFunctions == "test_functions"
RateLimiter   == "iteration_rate_limiter"
EndCloseSock  == "end_close_sock"
Scripts == {TestFunctions, RateLimiter, EndCloseSock}

Fn(n)      == [kind |-> "function", params |-> n]
Attr(kind) == [kind |-> kind, params |-> 0]

\* A plausible slip in the test module: two_params declared with a third parameter.
TestFunctionsArityMix ==
    [no_params |-> Fn(0), one_param |-> Fn(1), two_params |-> Fn(3),
     three_params |-> Fn(3), returns_none |-> Fn(0), raises_error |-> Fn(0),
     not_callable |-> Attr("str"), also_not_callable |-> Attr("int"),
     list_not_callable |-> Attr("list")]

\* A plausible slip in the test module: list_not_callable bound with def.
TestFunctionsListIsDef ==
    [no_params |-> Fn(0), one_param |-> Fn(1), two_params |-> Fn(2),
     three_params |-> Fn(3), returns_none |-> Fn(0), raises_error |-> Fn(0),
     not_callable |-> Attr("str"), also_not_callable |-> Attr("int"),
     list_not_callable |-> Fn(0)]

\* test_functions.py
TestFunctionsNamespace ==
    [no_params |-> Fn(0), one_param |-> Fn(1), two_params |-> Fn(2),
     three_params |-> Fn(3), returns_none |-> Fn(0), raises_error |-> Fn(0),
     not_callable |-> Attr("str"), also_not_callable |-> Attr("int"),
     list_not_callable |-> Attr("list")]

\* iteration_rate_limiter.py: no `end`
RateLimiterNamespace ==
    [time |-> Attr("module"), did_show_msg |-> Attr("bool"), step |-> Fn(1)]

\* A plausible slip: the teardown function is missing from the script.
EndCloseSockNoEnd ==
    [socket |-> Attr("module"), sock |-> Attr("socket"), step |-> Fn(0)]

\* end_close_sock.py: step() takes no parameter
EndCloseSockNamespace ==
    [socket |-> Attr("module"), sock |-> Attr("socket"), step |-> Fn(0), end |-> Fn(0)]

Namespace(m) ==
    CASE m = TestFunctions -> TestFunctionsNamespace
      [] m = RateLimiter   -> RateLimiterNamespace
      [] m = EndCloseSock  -> EndCloseSockNamespace

\* names the host may ask for: every bound name, the entry points, an unbound one
Names == UNION {DOMAIN Namespace(m) : m \in Scripts} \cup {"step", "end", "missing"}

(***************************************************************************)
(* Guest Execution Context: module-level state and observable effects.     *)
(* notices, step_runs, end_runs and step_on_closed count since the last    *)
(* load; toplevel counts every execution of a script's top-level code.     *)
(***************************************************************************)
GuestBlank ==
    [did_show_msg |-> FALSE, notices |-> 0, sock |-> "none", toplevel |-> 0,
     step_runs |-> 0, end_runs |-> 0, step_on_closed |-> 0, invocations |-> 0]

\* A plausible slip: the rate limiter's flag starts out set.
TopLevelFlagSet(m, g, connected) ==
    LET fresh == [GuestBlank EXCEPT !.toplevel = g.toplevel + 1,
                                    !.invocations = g.invocations] IN
    CASE m = RateLimiter  -> [fresh EXCEPT !.did_show_msg = TRUE]
      [] m = EndCloseSock ->
            [fresh EXCEPT !.sock = IF connected THEN "connected" ELSE "unconnected"]
      [] OTHER -> fresh

\* Top-level code of script m.  connected says whether sock.connect succeeded.
TopLevel(m, g, connected) ==
    LET fresh == [GuestBlank EXCEPT !.toplevel = g.toplevel + 1,
                                    !.invocations = g.invocations] IN
    CASE m = RateLimiter  -> [fresh EXCEPT !.did_show_msg = FALSE]       \* line 2
      [] m = EndCloseSock ->                                            \* lines 3-4
            [fresh EXCEPT !.sock = IF connected THEN "connected" ELSE "unconnected"]
      [] OTHER -> fresh

\* decimal text of a small natural number, as str() gives it
Digit(d) == CASE d = 0 -> "0" [] d = 1 -> "1" [] d = 2 -> "2" [] d = 3 -> "3"
              [] d = 4 -> "4" [] d = 5 -> "5" [] d = 6 -> "6" [] d = 7 -> "7"
              [] d = 8 -> "8" [] OTHER -> "9"
RECURSIVE Str(_)
Str(n) == IF n < 10 THEN Digit(n) ELSE Str(n \div 10) \o Digit(n % 10)

Returns(v, g) == [status |-> "ok", val |-> v, exc |-> "", msg |-> "", g |-> g]
Raises(exc, msg, g) == [status |-> "raise", val |-> NoneVal, exc |-> exc, msg |-> msg, g |-> g]

\* A plausible slip: the flag is never set.
ShowNoticeNoSet(g) == [g EXCEPT !.notices = @ + 1]

\* iteration_rate_limiter.py lines 8-10
ShowNotice(g) == [g EXCEPT !.notices = @ + 1, !.did_show_msg = TRUE]

\* A plausible slip: the limiter returns nothing.
RateLimiterReturnNone(input_data) == NoneVal

\* iteration_rate_limiter.py line 12
RateLimiterReturn(input_data) == input_data

\* iteration_rate_limiter.py lines 4-12, run without interruption
RateLimiterStep(input_data, g) ==
    LET g1 == IF ~g.did_show_msg THEN ShowNotice(g) ELSE g IN
    Returns(RateLimiterReturn(input_data), [g1 EXCEPT !.step_runs = @ + 1])

EchoResponse == Val("bytes", 0, "Hello from DPorch!\n", <<>>)

\* end_close_sock.py lines 6-10
EndCloseSockStep(g) ==
    IF g.sock = "connected"
    THEN Returns(EchoResponse, [g EXCEPT !.step_runs = @ + 1])
    ELSE Raises("OSError", "Bad file descriptor",
                [g EXCEPT !.step_runs = @ + 1,
                          !.step_on_closed = @ + (IF g.sock = "closed" THEN 1 ELSE 0)])

\* end_close_sock.py lines 12-14
EndCloseSockEnd(g) ==
    Returns(NoneVal, [g EXCEPT !.sock = "closed", !.end_runs = @ + 1])

\* A plausible slip: the function returns instead of raising.
RaisesErrorReturns(g) == Returns(NoneVal, g)

\* test_functions.py lines 32-34
RaisesError(g) == Raises("ValueError", "This is a test error", g)

\* test_functions.py lines 7-29; arguments are ints
TestFunctionBody(name, args, g) ==
    CASE name = "no_params"    -> Returns(StrVal("no_params_called"), g)
      [] name = "one_param"    -> Returns(StrVal("received: " \o Str(args[1].n)), g)
      [] name = "two_params"   -> Returns(IntVal(args[1].n + args[2].n), g)
      [] name = "three_params" -> Returns(IntVal(args[1].n + args[2].n + args[3].n), g)
      [] name = "returns_none" -> Returns(NoneVal, g)
      [] name = "raises_error" -> RaisesError(g)

\* The body of function `name` of module m applied to args (arity already matched).
CallBody(m, name, args, g) ==
    LET g0 == [g EXCEPT !.invocations = @ + 1] IN
    CASE m = TestFunctions -> TestFunctionBody(name, args, g0)
      [] m = RateLimiter   -> RateLimiterStep(args[1], g0)
      [] m = EndCloseSock  -> IF name = "step" THEN EndCloseSockStep(g0)
                              ELSE EndCloseSockEnd(g0)

(***************************************************************************)
(* Function Resolver & Invoker                                             *)
(***************************************************************************)
Res(kind, value, errkind, message) ==
    [kind |-> kind, value |-> value, errkind |-> errkind, message |-> message]
NoResult == Res("none", NoneVal, "", "")
Success(v) == Res("ok", v, "", "")
Failure(kind) == Res(kind, NoneVal, "", "")
GuestRaisedError(kind, message) == Res("GuestRaisedError", NoneVal, kind, message)

NoRef == [module |-> "", name |-> ""]

\* capability check on a bound value
IsCallable(binding) == binding.kind = "function"

\* resolve(module, name): classification only, nothing is called
resolve(m, name) ==
    IF name \notin DOMAIN Namespace(m) THEN Failure("NotFoundError")
    ELSE IF ~IsCallable(Namespace(m)[name]) THEN Failure("NotCallableError")
    ELSE Res("callable", NoneVal, "", "")

ArityMatches(binding, args) == Len(args) = binding.params

\* invoke(reference, args) between acquire and release: the host-observable
\* result and the guest state it leaves
invoke(r, args, g) ==
    IF ~ArityMatches(Namespace(r.module)[r.name], args)
    THEN [res |-> Failure("ArityError"), g |-> g]
    ELSE LET b == CallBody(r.module, r.name, args, g) IN
         [res |-> IF b.status = "ok" THEN Success(b.val)
                  ELSE GuestRaisedError(b.exc, b.msg),
          g |-> b.g]

(***************************************************************************)
(* Host state shared by the specifications                                 *)
(***************************************************************************)
Threads  == {"t1", "t2"}
NoThread == "none"

Req(o, name, args) == [op |-> o, name |-> name, args |-> args]
NoRequest == Req("none", "", <<>>)
NoOp == [module |-> "", name |-> "", args |-> <<>>]

GateIdle ==
    /\ gate = NoThread
    /\ pc = [t \in Threads |-> "idle"]
    /\ op = [t \in Threads |-> NoOp]
    /\ local = [t \in Threads |-> FALSE]
    /\ ret = [t \in Threads |-> NoResult]
    /\ completed = <<>>
    /\ calls = 0

HostIdle ==
    /\ loads = 0
    /\ request = NoRequest
    /\ ref = NoRef
    /\ result = NoResult
    /\ steps = 0

(***************************************************************************)
(* Stage Adapter                                                           *)
(***************************************************************************)
StepInputs == {IntVal(0), ListVal(<<IntVal(1)>>)}

\* load(script): the top-level code runs, once, under the gate
Load(connected) ==
    /\ steps < MaxSteps
    /\ stage = "Unloaded"
    /\ gate = NoThread
    /\ script # EndCloseSock => connected
    /\ steps' = steps + 1
    /\ loads' = loads + 1
    /\ request' = Req("load", "", <<>>)
    /\ IF connected
       THEN /\ guest' = TopLevel(script, guest, TRUE)
            /\ stage' = "Loaded"
            /\ result' = Success(NoneVal)
       ELSE /\ guest' = [TopLevel(script, guest, FALSE) EXCEPT !.sock = "none"]
            /\ stage' = "Unloaded"
            /\ result' = Failure("LoadError")
    /\ UNCHANGED <<script, ref>>
    /\ UNCHANGED <<codecVars, gateVars>>

\* run_step(stage, input)
RunStep(input) ==
    /\ steps < MaxSteps
    /\ gate = NoThread
    /\ steps' = steps + 1
    /\ request' = Req("run_step", "step", <<input>>)
    /\ IF stage # "Loaded"
       THEN /\ result' = Failure("InvalidStateError")
            /\ UNCHANGED guest
       ELSE LET r == resolve(script, "step") IN
            IF r.kind = "NotFoundError"
            THEN /\ result' = Failure("MissingEntryPointError")
                 /\ UNCHANGED guest
            ELSE IF r.kind # "callable"
            THEN /\ result' = r
                 /\ UNCHANGED guest
            ELSE LET o == invoke([module |-> script, name |-> "step"], <<input>>, guest) IN
                 /\ result' = o.res
                 /\ guest' = o.g
    /\ UNCHANGED <<script, stage, loads, ref>>
    /\ UNCHANGED <<codecVars, gateVars>>

\* A plausible variant: teardown is not refused after the stage has ended.
RunEndGuardLax == stage \in {"Loaded", "Ended"}

\* run_end is accepted only on a Loaded stage
RunEndGuard == stage = "Loaded"

\* run_end(stage)
RunEnd ==
    /\ steps < MaxSteps
    /\ gate = NoThread
    /\ steps' = steps + 1
    /\ request' = Req("run_end", "end", <<>>)
    /\ IF ~RunEndGuard
       THEN /\ result' = Failure("InvalidStateError")
            /\ UNCHANGED <<guest, stage>>
       ELSE LET r == resolve(script, "end") IN
            /\ stage' = "Ended"
            /\ IF r.kind = "NotFoundError"
               THEN /\ result' = Success(NoneVal)
                    /\ UNCHANGED guest
               ELSE IF r.kind # "callable"
               THEN /\ result' = r
                    /\ UNCHANGED guest
               ELSE LET o == invoke([module |-> script, name |-> "end"], <<>>, guest) IN
                    /\ result' = o.res
                    /\ guest' = o.g
    /\ UNCHANGED <<script, loads, ref>>
    /\ UNCHANGED <<codecVars, gateVars>>

\* the ended stage is unloaded; its module-level state goes with it
Unload ==
    /\ steps < MaxSteps
    /\ stage = "Ended"
    /\ steps' = steps + 1
    /\ stage' = "Unloaded"
    /\ request' = Req("unload", "", <<>>)
    /\ result' = Success(NoneVal)
    /\ guest' = [guest EXCEPT !.sock = "none", !.did_show_msg = FALSE]
    /\ UNCHANGED <<script, loads, ref>>
    /\ UNCHANGED <<codecVars, gateVars>>

(***************************************************************************)
(* Resolver & Invoker driven directly by the host, one call at a time      *)
(***************************************************************************)
IntArgs == {IntVal(0), IntVal(1)}

Resolve(name) ==
    /\ steps < MaxSteps
    /\ gate = NoThread
    /\ steps' = steps + 1
    /\ request' = Req("resolve", name, <<>>)
    /\ result' = resolve(script, name)
    /\ ref' = IF resolve(script, name).kind = "callable"
              THEN [module |-> script, name |-> name] ELSE NoRef
    /\ UNCHANGED <<script, stage, loads, guest>>
    /\ UNCHANGED <<codecVars, gateVars>>

Invoke(args) ==
    /\ steps < MaxSteps
    /\ gate = NoThread
    /\ ref # NoRef
    /\ steps' = steps + 1
    /\ request' = Req("invoke", ref.name, args)
    /\ LET o == invoke(ref, args, guest) IN
       /\ result' = o.res
       /\ guest' = o.g
    /\ UNCHANGED <<script, stage, loads, ref>>
    /\ UNCHANGED <<codecVars, gateVars>>

(***************************************************************************)
(* Call Gate: host threads calling into the guest concurrently             *)
(***************************************************************************)
GateOps ==
    { [module |-> RateLimiter,   name |-> "step",         args |-> <<IntVal(0)>>],
      [module |-> TestFunctions, name |-> "raises_error", args |-> <<>>],
      [module |-> TestFunctions, name |-> "no_params",    args |-> <<>>],
      [module |-> TestFunctions, name |-> "no_params",    args |-> <<IntVal(0)>>],
      [module |-> TestFunctions, name |-> "not_callable", args |-> <<>>] }

InGuest == {"held", "l7", "l8", "l11", "l12", "exit"}

Begin(t, o) ==
    /\ pc[t] = "idle"
    /\ calls < MaxCalls
    /\ calls' = calls + 1
    /\ pc' = [pc EXCEPT ![t] = "waiting"]
    /\ op' = [op EXCEPT ![t] = o]
    /\ ret' = [ret EXCEPT ![t] = NoResult]
    /\ UNCHANGED <<gate, local, completed, guest>>
    /\ UNCHANGED <<codecVars, stageVars>>

\* acquire() is granted only while no token is outstanding
AcquireGranted(t) == pc[t] = "waiting" /\ gate = NoThread

Acquire(t) ==
    /\ AcquireGranted(t)
    /\ gate' = t
    /\ pc' = [pc EXCEPT ![t] = "held"]
    /\ UNCHANGED <<op, local, ret, completed, calls, guest>>
    /\ UNCHANGED <<codecVars, stageVars>>

\* resolve, arity check and entry into the callable, all under the token
Enter(t) ==
    /\ pc[t] = "held"
    /\ LET o == op[t]
           r == resolve(o.module, o.name)
       IN
       IF r.kind # "callable"
       THEN /\ ret' = [ret EXCEPT ![t] = r]
            /\ pc' = [pc EXCEPT ![t] = "exit"]
            /\ UNCHANGED guest
       ELSE IF ~ArityMatches(Namespace(o.module)[o.name], o.args)
       THEN /\ ret' = [ret EXCEPT ![t] = Failure("ArityError")]
            /\ pc' = [pc EXCEPT ![t] = "exit"]
            /\ UNCHANGED guest
       ELSE IF o.module = RateLimiter
       THEN /\ guest' = [guest EXCEPT !.invocations = @ + 1]
            /\ pc' = [pc EXCEPT ![t] = "l7"]
            /\ UNCHANGED ret
       ELSE LET i == invoke([module |-> o.module, name |-> o.name], o.args, guest) IN
            /\ ret' = [ret EXCEPT ![t] = i.res]
            /\ guest' = i.g
            /\ pc' = [pc EXCEPT ![t] = "exit"]
    /\ UNCHANGED <<gate, op, local, completed, calls>>
    /\ UNCHANGED <<codecVars, stageVars>>

\* iteration_rate_limiter.py line 7: read the flag
L7(t) ==
    /\ pc[t] = "l7"
    /\ local' = [local EXCEPT ![t] = guest.did_show_msg]
    /\ pc' = [pc EXCEPT ![t] = IF guest.did_show_msg THEN "l11" ELSE "l8"]
    /\ UNCHANGED <<gate, op, ret, completed, calls, guest>>
    /\ UNCHANGED <<codecVars, stageVars>>

\* lines 8-10: print the notice, set the flag
L8(t) ==
    /\ pc[t] = "l8"
    /\ guest' = ShowNotice(guest)
    /\ pc' = [pc EXCEPT ![t] = "l11"]
    /\ UNCHANGED <<gate, op, local, ret, completed, calls>>
    /\ UNCHANGED <<codecVars, stageVars>>

\* line 11: time.sleep(1)
L11(t) ==
    /\ pc[t] = "l11"
    /\ pc' = [pc EXCEPT ![t] = "l12"]
    /\ UNCHANGED <<gate, op, local, ret, completed, calls, guest>>
    /\ UNCHANGED <<codecVars, stageVars>>

\* line 12: return input_data
L12(t) ==
    /\ pc[t] = "l12"
    /\ ret' = [ret EXCEPT ![t] = Success(RateLimiterReturn(op[t].args[1]))]
    /\ guest' = [guest EXCEPT !.step_runs = @ + 1]
    /\ pc' = [pc EXCEPT ![t] = "exit"]
    /\ UNCHANGED <<gate, op, local, completed, calls>>
    /\ UNCHANGED <<codecVars, stageVars>>

\* the scoped token is released whatever the call's result
GateAfterExit(t) == NoThread

\* the call leaves its scope: release(token), then the result reaches the caller
Release(t) ==
    /\ pc[t] = "exit"
    /\ gate' = GateAfterExit(t)
    /\ pc' = [pc EXCEPT ![t] = "idle"]
    /\ completed' = IF Len(completed) = 2
                    THEN <<completed[2], ret[t].kind>>
                    ELSE Append(completed, ret[t].kind)
    /\ UNCHANGED <<op, local, ret, calls, guest>>
    /\ UNCHANGED <<codecVars, stageVars>>

(***************************************************************************)
(* Specifications                                                          *)
(***************************************************************************)
\* Codec: payloads are produced, arrive and are decoded.
InitCodec ==
    /\ CodecInit /\ GateIdle /\ HostIdle
    /\ script = RateLimiter /\ stage = "Unloaded" /\ guest = GuestBlank

NextCodec ==
    \/ \E c \in Channels, v \in Values : Serialize(c, v)
    \/ \E c \in Channels, d \in Malformed : ReceiveMalformed(c, d)
    \/ Deserialize

SpecCodec == InitCodec /\ [][NextCodec]_vars

\* Stage: one stage instance of any of the scripts, driven through its life.
InitStage ==
    /\ CodecInit /\ GateIdle /\ HostIdle
    /\ script \in Scripts /\ stage = "Unloaded" /\ guest = GuestBlank

NextStage ==
    \/ \E connected \in BOOLEAN : Load(connected)
    \/ \E input \in StepInputs : RunStep(input)
    \/ RunEnd
    \/ Unload

SpecStage == InitStage /\ [][NextStage]_vars

\* Invoker: a loaded module whose names the host resolves and invokes.
InitInvoker ==
    /\ CodecInit /\ GateIdle
    /\ request = NoRequest /\ ref = NoRef /\ result = NoResult /\ steps = 0
    /\ script \in Scripts /\ stage = "Loaded" /\ loads = 1
    /\ guest = TopLevel(script, GuestBlank, TRUE)

NextInvoker ==
    \/ \E name \in Names : Resolve(name)
    \/ \E args \in SeqsUpTo(IntArgs, MaxArgs) : Invoke(args)

SpecInvoker == InitInvoker /\ [][NextInvoker]_vars

\* Gate: two host threads calling into the loaded rate limiter and the test module.
InitGate ==
    /\ CodecInit /\ GateIdle
    /\ request = NoRequest /\ ref = NoRef /\ result = NoResult /\ steps = 0
    /\ script = RateLimiter /\ stage = "Loaded" /\ loads = 1
    /\ guest = TopLevel(RateLimiter, GuestBlank, TRUE)

NextGate ==
    \/ \E t \in Threads, o \in GateOps : Begin(t, o)
    \/ \E t \in Threads : Acquire(t)
    \/ \E t \in Threads : Enter(t)
    \/ \E t \in Threads : L7(t)
    \/ \E t \in Threads : L8(t)
    \/ \E t \in Threads : L11(t)
    \/ \E t \in Threads : L12(t)
    \/ \E t \in Threads : Release(t)

SpecGate == InitGate /\ [][NextGate]_vars

(***************************************************************************)
(* Properties                                                              *)
(***************************************************************************)
AllFromSerialize == Keys(source_msg_map) \subseteq DOMAIN sent
FirstMalformed ==
    LET bad == {i \in 1..Len(source_msg_map) : source_msg_map[i].source \notin DOMAIN sent}
    IN source_msg_map[CHOOSE i \in bad : \A j \in bad : i <= j].source

\* C1: Call Gate mutual exclusion.  At most one thread is between acquire and
\* release, that thread is the token's holder, the rate limiter's flag is not
\* written by anyone else between a step's read (line 7) and its write
\* (line 10), and so the notice is printed at most once however the threads
\* interleave.
C1_MutualExclusion ==
    /\ Cardinality({t \in Threads : pc[t] \in InGuest}) <= 1
    /\ \A t \in Threads : pc[t] \in InGuest => gate = t
    /\ \A t \in Threads : pc[t] = "l8" => (~local[t] /\ ~guest.did_show_msg)
    /\ guest.notices <= 1

\* two callers want the rate limiter's step; one is between its read and its
\* write of the flag while the other is blocked in acquire
C1_Witness ==
    \E t, u \in Threads :
        /\ t # u
        /\ pc[t] = "l8" /\ pc[u] = "waiting"
        /\ op[t].module = RateLimiter /\ op[u].module = RateLimiter

C3_ReleasedOnEveryExit ==
    /\ \A t \in Threads : pc[t] \in {"idle", "waiting"} => gate # t
    /\ (\A t \in Threads : pc[t] \in {"idle", "waiting"}) => gate = NoThread
    /\ \A t \in Threads :
          (pc[t] \in {"idle", "exit"} /\ op[t].name = "raises_error")
             => ret[t] = GuestRaisedError("ValueError", "This is a test error")

\* a call raised, and the next call to complete acquired the gate and succeeded
C3_Witness ==
    /\ completed = <<"GuestRaisedError", "ok">>
    /\ gate = NoThread

\* C4: the stage moves only along Unloaded -> Loaded -> Ended -> Unloaded; a
\* run_step or run_end issued on an Unloaded or Ended stage returns
\* InvalidStateError and leaves the guest untouched; end runs at most once per
\* load and step never runs on the closed socket.
C4_Lifecycle ==
    /\ [][ /\ (stage' # stage =>
                 <<stage, stage'>> \in {<<"Unloaded", "Loaded">>, <<"Loaded", "Ended">>,
                                        <<"Ended", "Unloaded">>})
           /\ (guest'.step_runs > guest.step_runs => stage = "Loaded" /\ stage' = "Loaded")
           /\ (( /\ steps' # steps
                 /\ request'.op \in {"run_step", "run_end"}
                 /\ stage \in {"Unloaded", "Ended"} )
                 => /\ result'.kind = "InvalidStateError"
                    /\ guest' = guest
                    /\ stage' = stage) ]_vars
    /\ [](guest.end_runs <= 1 /\ guest.step_on_closed = 0)

\* the socket stage has ended, end ran once, and a further run_end was refused
C4_Witness ==
    /\ script = EndCloseSock /\ stage = "Ended"
    /\ guest.end_runs = 1 /\ guest.sock = "closed"
    /\ request.op = "run_end" /\ result.kind = "InvalidStateError"

RunStepOnLoaded == request.op = "run_step" /\ stage = "Loaded"

DeclaredParams(name) ==
    CASE name = "no_params" -> 0 [] name = "one_param" -> 1
      [] name = "two_params" -> 2 [] name = "three_params" -> 3

\* C6: invoking no_params, one_param, two_params or three_params succeeds with
\* exactly the declared number of positional arguments and yields ArityError
\* with any other number.
C6_Arity ==
    ( /\ script = TestFunctions
      /\ request.op = "invoke"
      /\ request.name \in {"no_params", "one_param", "two_params", "three_params"} )
    => IF Len(request.args) = DeclaredParams(request.name)
       THEN result.kind = "ok"
       ELSE result.kind = "ArityError"

\* after a successful invocation, no_params was invoked with one argument
C6_Witness ==
    /\ script = TestFunctions
    /\ request = Req("invoke", "no_params", <<IntVal(1)>>)
    /\ result.kind = "ArityError"
    /\ guest.invocations >= 1

NonInvokable ==
    {"not_callable", "also_not_callable", "list_not_callable",
     "time", "did_show_msg", "socket", "sock"}

\* C7: resolve classifies without invoking.  A name bound to a string, a
\* number, a list or any other non-function gives NotCallableError, an unbound
\* name gives NotFoundError, only a function gives a callable reference, and
\* no resolve changes the guest or counts as an invocation.
C7_ResolveClassifies ==
    /\ [](request.op = "resolve" =>
            IF request.name \notin DOMAIN Namespace(script)
            THEN result.kind = "NotFoundError" /\ ref = NoRef
            ELSE IF request.name \in NonInvokable
            THEN result.kind = "NotCallableError" /\ ref = NoRef
            ELSE result.kind = "callable" /\ ref.name = request.name)
    /\ [][(steps' # steps /\ request'.op = "resolve") => guest' = guest]_vars

\* after some invocations, the list was resolved and rejected as not callable
C7_Witness ==
    /\ script = TestFunctions
    /\ request = Req("resolve", "list_not_callable", <<>>)
    /\ result.kind = "NotCallableError"
    /\ guest.invocations >= 1

C9_StatePersists ==
    /\ guest.toplevel = loads
    /\ (stage = "Loaded" /\ script = RateLimiter) =>
          IF guest.step_runs = 0
          THEN ~guest.did_show_msg /\ guest.notices = 0
          ELSE guest.did_show_msg /\ guest.notices = 1

\* the rate limiter has stepped three times since its load and printed once
C9_Witness ==
    /\ script = RateLimiter /\ stage = "Loaded"
    /\ guest.step_runs = 3 /\ guest.notices = 1 /\ loads = 1

\* C10: run_end on a Loaded stage invokes end, with no arguments, only if the
\* script defines it.  For a script without end the call succeeds, invokes
\* nothing and leaves the guest as it was; for end_close_sock it runs end once,
\* which closes the socket.
C10_OptionalEnd ==
    /\ []((request.op = "run_end" /\ result.kind # "InvalidStateError") =>
             /\ stage = "Ended"
             /\ result = Success(NoneVal)
             /\ IF script = EndCloseSock
                THEN guest.end_runs = 1 /\ guest.sock = "closed"
                ELSE guest.end_runs = 0)
    /\ [][( /\ steps' # steps /\ request'.op = "run_end"
            /\ stage = "Loaded" /\ script \in {RateLimiter, TestFunctions} )
          => guest' = guest]_vars

\* the rate limiter, stepped at least once, was torn down without an end
C10_Witness ==
    /\ script = RateLimiter /\ stage = "Ended"
    /\ request.op = "run_end" /\ result = Success(NoneVal)
    /\ guest.step_runs >= 1 /\ guest.end_runs = 0

====
